---- MODULE Spec2Model ----
(***************************************************************************)
(* Timeline layout and clustering of commit-timeline-genius.               *)
(*                                                                         *)
(* The Timeline component (src/src/lib/supabase.ts, lines 94-393) keeps    *)
(* timeRange and timeIntervals in React state, recomputes them in an       *)
(* effect keyed on [commits, timeScale], and in every render pass groups   *)
(* the commits, clusters each group by rounded position and colours each   *)
(* cluster.  Time is counted in whole hours.                               *)
(*                                                                         *)
(* calculateTimeRange, generateTimeIntervals, calculateCommitPosition      *)
(* (@/utils/date-utils) and groupCommits (@/utils/filter-utils) are        *)
(* imported by the component but their source is not part of src/; they    *)
(* are modelled from sections 4.1-4.4 of the specification.                *)
(*                                                                         *)
(* The RepositoryInput form (src/unnamed/part_000) and its asynchronous    *)
(* handleSubmit are modelled in the last part of the module.               *)
(***************************************************************************)
EXTENDS Integers, Sequences, FiniteSets, TLC

VARIABLES
    commits,            \* prop: the commit list
    timeScale,          \* prop
    groupBy,            \* prop
    selectedCommit,     \* prop: sha or Null
    timeRange,          \* useState, line 102
    timeIntervals,      \* useState, line 103
    hoveredCommit,      \* useState, line 107
    openClusterDialog,  \* useState, line 108
    selectedCluster,    \* useState, line 109: <<>> for null, else <<cluster>>
    effectPending,      \* the effect of line 112 is scheduled and has not run
    rendered,           \* what the last render pass produced
    url,                \* RepositoryInput, useState of line 20: a sequence of characters
    checkingRepo,       \* RepositoryInput, useState of line 21
    isLoading,          \* RepositoryInput, prop of line 17
    runs                \* the runs of handleSubmit, in the order they started

vars == <<commits, timeScale, groupBy, selectedCommit, timeRange, timeIntervals,
          hoveredCommit, openClusterDialog, selectedCluster, effectPending,
          rendered, url, checkingRepo, isLoading, runs>>

\* the state of Timeline and the state of RepositoryInput
timelineVars == <<commits, timeScale, groupBy, selectedCommit, timeRange,
                  timeIntervals, hoveredCommit, openClusterDialog,
                  selectedCluster, effectPending, rendered>>
inputVars == <<url, checkingRepo, isLoading, runs>>

\* RepositoryInput as mounted: lines 17, 20 and 21, and no submission yet
RepositoryInputMounted ==
    /\ url = <<>>
    /\ checkingRepo = FALSE
    /\ isLoading = FALSE
    /\ runs = <<>>

----------------------------------------------------------------------------
(* Bounds of the model *)

MaxCommits == 2         \* longest commit list handed to Timeline
MaxLayout == 3          \* longest commit list of the layout specification
MaxCluster == 3         \* longest commit list of the colouring specification
MaxNow == 1             \* latest reading of the clock, in hours

----------------------------------------------------------------------------
(* Data *)

Null == "null"

\* an optional array field of a commit: missing, or an array
Undefined == [present |-> FALSE, list |-> <<>>]
Array(list) == [present |-> TRUE, list |-> list]

CommitTypes == {"FEATURE", "WARNING", "MILESTONE", "BUG", "CHORE"}
TimeScales == {"hour", "day", "week", "month", "year"}
GroupBys == {"type", "author", "date"}

Analysis(t) == [type |-> t]

Commit(sha, date, author, analyses, analises) ==
    [sha |-> sha, date |-> date, author |-> author,
     commit_analyses |-> analyses, commit_analises |-> analises]

(* Generic helpers over sequences *)

Range(s) == {s[i] : i \in 1..Len(s)}

RECURSIVE SelectSeqBy(_, _)
\* the subsequence of s whose indices are in keep, in the order of s
SelectSeqBy(s, keep) ==
    IF s = <<>> THEN <<>>
    ELSE LET n == Len(s)
             front == SelectSeqBy(SubSeq(s, 1, n - 1), keep)
         IN IF n \in keep THEN Append(front, s[n]) ELSE front

RECURSIVE SumSeq(_)
SumSeq(s) == IF s = <<>> THEN 0 ELSE Head(s) + SumSeq(Tail(s))

RECURSIVE SortAsc(_)
\* the members of a finite set of integers in ascending order
SortAsc(S) ==
    IF S = {} THEN <<>>
    ELSE LET m == CHOOSE x \in S : \A y \in S : x <= y
         IN <<m>> \o SortAsc(S \ {m})

Min(S) == CHOOSE x \in S : \A y \in S : x <= y
Max(S) == CHOOSE x \in S : \A y \in S : x >= y

----------------------------------------------------------------------------
(* @/utils/date-utils, modelled from sections 4.1, 4.2 and 4.4 of the      *)
(* specification.  Instants and durations are whole hours.                 *)

\* the width of one interval of a scale
UnitOf(scale) ==
    CASE scale = "hour" -> 1
      [] scale = "day" -> 24
      [] scale = "week" -> 168
      [] scale = "month" -> 720
      [] scale = "year" -> 8760

\* the margin added on both sides of a non-empty commit list
PadOf(scale) ==
    CASE scale = "hour" -> 12
      [] scale = "day" -> 24
      [] scale = "week" -> 48
      [] scale = "month" -> 72
      [] scale = "year" -> 168

Dates(cs) == {cs[i].date : i \in 1..Len(cs)}

\* 4.1: an empty list gives a range around the current instant, one unit on
\* either side; otherwise the earliest and latest date, padded outward.
calculateTimeRange(cs, scale, now) ==
    IF cs = <<>>
    THEN [start |-> now - UnitOf(scale), end |-> now + UnitOf(scale)]
    ELSE [start |-> Min(Dates(cs)) - PadOf(scale),
          end |-> Max(Dates(cs)) + PadOf(scale)]

RECURSIVE IntervalsFrom(_, _, _)
IntervalsFrom(cur, end, unit) ==
    IF cur >= end THEN <<>>
    ELSE LET next == IF cur + unit < end THEN cur + unit ELSE end
         IN <<[start |-> cur, end |-> next]>> \o IntervalsFrom(next, end, unit)

\* 4.2: intervals one unit wide from start on, the last clipped to end
generateTimeIntervals(start, end, scale) ==
    IntervalsFrom(start, end, UnitOf(scale))

\* 4.4: 100 * (timestamp - start) / (end - start), kept as an exact fraction
\* with a positive denominator
calculateCommitPosition(date, start, end, scale) ==
    [num |-> 100 * (date - start), den |-> end - start]

----------------------------------------------------------------------------
(* clusterCommits, lines 132-159 *)

\* Math.floor in the place of Math.round
MathFloor(p) == p.num \div p.den

\* Math.round of line 145: the nearest integer, a half rounded towards
\* plus infinity
MathRound(p) == (2 * p.num + p.den) \div (2 * p.den)

\* lines 137-145: the rounded position of one commit
roundedPosition(commit, range, scale) ==
    MathRound(calculateCommitPosition(commit.date, range.start, range.end, scale))

\* a number used as a property key of an object is its decimal string
PropertyKey(n) == ToString(n)

\* Number(pos) of line 156, for a key that was made from one of the numbers
\* in made
NumberOfKey(key, made) == CHOOSE n \in made : PropertyKey(n) = key

RECURSIVE positionMapAssign(_, _, _)
\* the forEach with positionMap[roundedPosition] = [commit] in the place of
\* the push of line 151
positionMapAssign(cs, range, scale) ==
    IF cs = <<>> THEN [order |-> <<>>, bucket |-> <<>>]
    ELSE LET n == Len(cs)
             prev == positionMapAssign(SubSeq(cs, 1, n - 1), range, scale)
             key == PropertyKey(roundedPosition(cs[n], range, scale))
         IN IF key \in DOMAIN prev.bucket
            THEN [order |-> prev.order,
                  bucket |-> [prev.bucket EXCEPT ![key] = <<cs[n]>>]]
            ELSE [order |-> Append(prev.order, key),
                  bucket |-> (key :> <<cs[n]>>) @@ prev.bucket]

RECURSIVE positionMap(_, _, _)
\* lines 133-152: the object after the forEach, as the keys in the order
\* they were created and the list stored under each key
positionMap(cs, range, scale) ==
    IF cs = <<>> THEN [order |-> <<>>, bucket |-> <<>>]
    ELSE LET n == Len(cs)
             prev == positionMap(SubSeq(cs, 1, n - 1), range, scale)
             key == PropertyKey(roundedPosition(cs[n], range, scale))
         IN IF key \in DOMAIN prev.bucket
            THEN [order |-> prev.order,
                  bucket |-> [prev.bucket EXCEPT ![key] = Append(@, cs[n])]]
            ELSE [order |-> Append(prev.order, key),
                  bucket |-> (key :> <<cs[n]>>) @@ prev.bucket]

\* Object.entries of line 155: the keys that are array indices first, in
\* ascending numeric order, then the other keys in creation order.  An array
\* index is a whole number from 0 to 2^32 - 2; no position of the model
\* comes near the upper end.
ObjectEntriesOrder(order, made) ==
    LET num(i) == NumberOfKey(order[i], made)
        isIndex(i) == num(i) >= 0
        indices == {num(i) : i \in {j \in 1..Len(order) : isIndex(j)}}
        sorted == SortAsc(indices)
        others == SelectSeqBy(order, {j \in 1..Len(order) : ~isIndex(j)})
    IN [i \in 1..Len(sorted) |-> PropertyKey(sorted[i])] \o others

\* lines 132-159
clusterCommits(cs, range, scale) ==
    LET map == positionMap(cs, range, scale)
        made == {roundedPosition(cs[i], range, scale) : i \in 1..Len(cs)}
        keys == ObjectEntriesOrder(map.order, made)
    IN [i \in 1..Len(keys) |->
          [position |-> NumberOfKey(keys[i], made),
           commits |-> map.bucket[keys[i]]]]

----------------------------------------------------------------------------
(* The category of a commit and of a cluster, lines 217-222, 268-283 and   *)
(* 343-346                                                                 *)

\* commit.commit_analyses || commit.commit_analises || []: an array, empty
\* or not, is truthy; a missing field is not
analysesOf(commit) ==
    IF commit.commit_analyses.present THEN commit.commit_analyses.list
    ELSE IF commit.commit_analises.present THEN commit.commit_analises.list
    ELSE <<>>

\* analyses[analyses.length - 1] in the place of analyses[0] of line 221
commitTypeOfLast(commit) ==
    LET analyses == analysesOf(commit)
    IN IF Len(analyses) >= 1 THEN analyses[Len(analyses)].type ELSE "CHORE"

\* lines 220-222: the type of the marker of a cluster of one commit
commitType(commit) ==
    LET analyses == analysesOf(commit)
    IN IF Len(analyses) >= 1 THEN analyses[1].type ELSE "CHORE"

\* lines 270-273: the types of the members of a cluster, in member order
commitTypes(cs) ==
    [i \in 1..Len(cs) |->
        LET analyses == analysesOf(cs[i])
        IN IF Len(analyses) >= 1 THEN analyses[1].type ELSE "CHORE"]

\* lines 344-346: the type shown for a commit in the cluster dialog
dialogCommitType(commit) ==
    LET analyses == analysesOf(commit)
    IN IF Len(analyses) >= 1 THEN analyses[1].type ELSE "CHORE"

RECURSIVE mostCommonType(_)
\* lines 275-281: the tally, as its entries <<type, count>> in the order the
\* keys were created
mostCommonType(types) ==
    IF types = <<>> THEN <<>>
    ELSE LET n == Len(types)
             acc == mostCommonType(SubSeq(types, 1, n - 1))
             at == {i \in 1..Len(acc) : acc[i][1] = types[n]}
         IN IF at = {} THEN Append(acc, <<types[n], 1>>)
            ELSE [i \in 1..Len(acc) |->
                    IF i \in at THEN <<acc[i][1], acc[i][2] + 1>> ELSE acc[i]]

\* the entry put in front of the entries of equal count
InsertBeforeEqual(sorted, e) ==
    LET ahead == {i \in 1..Len(sorted) : sorted[i][2] > e[2]}
        k == Cardinality(ahead)
    IN SubSeq(sorted, 1, k) \o <<e>> \o SubSeq(sorted, k + 1, Len(sorted))

\* one entry put into an already sorted list: behind every entry that the
\* comparator (a, b) => b[1] - a[1] does not order after it
InsertByCount(sorted, e) ==
    LET ahead == {i \in 1..Len(sorted) : sorted[i][2] >= e[2]}
        k == Cardinality(ahead)
    IN SubSeq(sorted, 1, k) \o <<e>> \o SubSeq(sorted, k + 1, Len(sorted))

RECURSIVE sortByCountAscending(_)
\* the comparator (a, b) => a[1] - b[1] in the place of that of line 283
sortByCountAscending(entries) ==
    IF entries = <<>> THEN <<>>
    ELSE LET n == Len(entries)
             sorted == sortByCountAscending(SubSeq(entries, 1, n - 1))
             k == Cardinality({i \in 1..Len(sorted) : sorted[i][2] <= entries[n][2]})
         IN SubSeq(sorted, 1, k) \o <<entries[n]>> \o SubSeq(sorted, k + 1, Len(sorted))

RECURSIVE sortByCount(_)
\* Array.prototype.sort of line 283 with (a, b) => b[1] - a[1]: descending
\* count, stable
sortByCount(entries) ==
    IF entries = <<>> THEN <<>>
    ELSE LET n == Len(entries)
         IN InsertByCount(sortByCount(SubSeq(entries, 1, n - 1)), entries[n])

\* line 283
dominantType(cs) == sortByCount(mostCommonType(commitTypes(cs)))[1][1]

----------------------------------------------------------------------------
(* groupCommits of @/utils/filter-utils, modelled from section 4.3 of the  *)
(* specification                                                           *)

\* the calendar day of an instant, as a string
DayString(date) == ToString(date \div 24)

\* section 3: the type of the first analysis, CHORE without analyses
effectiveCategory(commit) ==
    IF analysesOf(commit) = <<>> THEN "CHORE" ELSE Head(analysesOf(commit)).type

groupNameOf(commit, gb) ==
    CASE gb = "type" -> effectiveCategory(commit)
      [] gb = "author" -> commit.author
      [] gb = "date" -> DayString(commit.date)

RECURSIVE groupCommits(_, _)
\* the mapping as its entries [name, commits] in the order the names first
\* occur; a group exists only once a commit is put into it
groupCommits(cs, gb) ==
    IF cs = <<>> THEN <<>>
    ELSE LET n == Len(cs)
             prev == groupCommits(SubSeq(cs, 1, n - 1), gb)
             name == groupNameOf(cs[n], gb)
             at == {i \in 1..Len(prev) : prev[i].name = name}
         IN IF at = {} THEN Append(prev, [name |-> name, commits |-> <<cs[n]>>])
            ELSE [i \in 1..Len(prev) |->
                    IF i \in at
                    THEN [name |-> name, commits |-> Append(prev[i].commits, cs[n])]
                    ELSE prev[i]]

----------------------------------------------------------------------------
(* One render pass of Timeline, lines 118 and 171-392 *)

\* lines 215-327: the button drawn for one cluster
marker(cluster) ==
    IF Len(cluster.commits) = 1
    THEN [kind |-> "commit", position |-> cluster.position,
          commits |-> cluster.commits, type |-> commitType(cluster.commits[1])]
    ELSE [kind |-> "cluster", position |-> cluster.position,
          commits |-> cluster.commits, type |-> dominantType(cluster.commits)]

\* groupCommits.length > 1 in the place of the test of line 192
groupIsDrawnAboveOne(group) == Len(group.commits) > 1

\* lines 191-192: only the groups that have commits are drawn
groupIsDrawn(group) == Len(group.commits) > 0

\* lines 191-332: one row per drawn group, with the markers of its clusters
groupRows(cs, scale, gb, range) ==
    LET groupedCommits == groupCommits(cs, gb)
        drawn == SelectSeqBy(groupedCommits,
                     {i \in 1..Len(groupedCommits) : groupIsDrawn(groupedCommits[i])})
    IN [i \in 1..Len(drawn) |->
          LET clusters == clusterCommits(drawn[i].commits, range, scale)
          IN [groupName |-> drawn[i].name,
              input |-> drawn[i].commits,
              markers |-> [k \in 1..Len(clusters) |-> marker(clusters[k])]]]

\* lines 343-382: the entries of the cluster dialog
dialogEntries(selected) ==
    IF selected = <<>> THEN <<>>
    ELSE LET cluster == selected[1]
         IN [i \in 1..Len(cluster.commits) |->
               [sha |-> cluster.commits[i].sha,
                type |-> dialogCommitType(cluster.commits[i])]]

\* the render pass: it reads the props and the state of the component; the
\* time range is the state of line 102, not recomputed here
renderPass(cs, scale, gb, range, intervals, selected) ==
    [rangeUsed |-> range,
     columns |-> Len(intervals),
     rows |-> groupRows(cs, scale, gb, range),
     dialog |-> dialogEntries(selected)]

----------------------------------------------------------------------------
(* The Timeline component as a state machine                               *)

\* the commits of the repository on display
Repo ==
    <<Commit("a1", 0, "ann", Array(<<Analysis("FEATURE")>>), Undefined),
      Commit("b2", 0, "bob", Array(<<Analysis("FEATURE"), Analysis("BUG")>>), Undefined),
      Commit("c3", 20, "ann", Undefined, Array(<<Analysis("BUG")>>))>>

\* the parent hands over the repository's commits filtered: the sublists of
\* repo, in the order of repo, of at most max commits
CommitLists(repo, max) ==
    {SelectSeqBy(repo, keep) :
        keep \in {k \in SUBSET (1..Len(repo)) : Cardinality(k) <= max}}

\* the readings of Date.now()
Clock == 0..MaxNow

\* the render pass over the values the primed variables will have
RenderNext ==
    rendered' = renderPass(commits', timeScale', groupBy', timeRange',
                           timeIntervals', selectedCluster')

\* the component with a render pass done and the effect still to run:
\* the state holds range and the intervals made from it
Rendered(cs, scale, gb, range) ==
    /\ commits = cs
    /\ timeScale = scale
    /\ groupBy = gb
    /\ selectedCommit = Null
    /\ timeRange = range
    /\ timeIntervals = generateTimeIntervals(range.start, range.end, scale)
    /\ hoveredCommit = Null
    /\ openClusterDialog = FALSE
    /\ selectedCluster = <<>>
    /\ effectPending = TRUE
    /\ rendered = renderPass(cs, scale, gb, range, timeIntervals, <<>>)
    /\ RepositoryInputMounted

\* lines 102-109: the first render of the mounted component, the state
\* initialised from the props; effects run after every mount
Mount(cs, scale, gb, now) ==
    Rendered(cs, scale, gb, calculateTimeRange(cs, scale, now))

Init ==
    \E cs \in CommitLists(Repo, MaxCommits), scale \in TimeScales,
       gb \in GroupBys, now \in Clock :
        Mount(cs, scale, gb, now)

\* the effect without setTimeRange(range)
RunEffectKeepsRange ==
    /\ effectPending
    /\ \E now \in Clock :
        LET range == calculateTimeRange(commits, timeScale, now)
        IN timeIntervals' = generateTimeIntervals(range.start, range.end, timeScale)
    /\ effectPending' = FALSE
    /\ UNCHANGED <<commits, timeScale, groupBy, selectedCommit, hoveredCommit,
                   openClusterDialog, selectedCluster, timeRange>>
    /\ RenderNext
    /\ UNCHANGED inputVars

\* the effect with the intervals made from timeRange of the state in the
\* place of range
RunEffectStaleIntervals ==
    /\ effectPending
    /\ \E now \in Clock : timeRange' = calculateTimeRange(commits, timeScale, now)
    /\ timeIntervals' = generateTimeIntervals(timeRange.start, timeRange.end, timeScale)
    /\ effectPending' = FALSE
    /\ UNCHANGED <<commits, timeScale, groupBy, selectedCommit, hoveredCommit,
                   openClusterDialog, selectedCluster>>
    /\ RenderNext
    /\ UNCHANGED inputVars

\* lines 112-116: the effect body, and the render pass its two state updates
\* cause
RunEffect ==
    /\ effectPending
    /\ \E now \in Clock :
        LET range == calculateTimeRange(commits, timeScale, now)
        IN /\ timeRange' = range
           /\ timeIntervals' = generateTimeIntervals(range.start, range.end, timeScale)
    /\ effectPending' = FALSE
    /\ UNCHANGED <<commits, timeScale, groupBy, selectedCommit, hoveredCommit,
                   openClusterDialog, selectedCluster>>
    /\ RenderNext
    /\ UNCHANGED inputVars

\* the parent passes a new commit list: a render pass with the state as it
\* is, and the effect is scheduled because the dependency commits changed.
\* Pending effects are flushed before the next render, so the parent and
\* the handlers act only when none is pending.
SetCommits(cs) ==
    /\ ~effectPending
    /\ commits' = cs
    /\ effectPending' = TRUE
    /\ UNCHANGED <<timeScale, groupBy, selectedCommit, timeRange, timeIntervals,
                   hoveredCommit, openClusterDialog, selectedCluster>>
    /\ RenderNext
    /\ UNCHANGED inputVars

\* the dependency list of line 116 without timeScale
SetTimeScaleNoEffect(scale) ==
    /\ ~effectPending
    /\ scale # timeScale
    /\ timeScale' = scale
    /\ UNCHANGED <<commits, groupBy, selectedCommit, timeRange, timeIntervals,
                   hoveredCommit, openClusterDialog, selectedCluster, effectPending>>
    /\ RenderNext
    /\ UNCHANGED inputVars

\* the parent passes another time scale
SetTimeScale(scale) ==
    /\ ~effectPending
    /\ scale # timeScale
    /\ timeScale' = scale
    /\ effectPending' = TRUE
    /\ UNCHANGED <<commits, groupBy, selectedCommit, timeRange, timeIntervals,
                   hoveredCommit, openClusterDialog, selectedCluster>>
    /\ RenderNext
    /\ UNCHANGED inputVars

\* the parent passes another grouping key: no dependency of the effect
SetGroupBy(gb) ==
    /\ ~effectPending
    /\ gb # groupBy
    /\ groupBy' = gb
    /\ UNCHANGED <<commits, timeScale, selectedCommit, timeRange, timeIntervals,
                   hoveredCommit, openClusterDialog, selectedCluster, effectPending>>
    /\ RenderNext
    /\ UNCHANGED inputVars

\* the parent passes another selectedCommit, as it may after onCommitSelect
\* of line 238
SetSelectedCommit(sha) ==
    /\ ~effectPending
    /\ sha # selectedCommit
    /\ selectedCommit' = sha
    /\ UNCHANGED <<commits, timeScale, groupBy, timeRange, timeIntervals,
                   hoveredCommit, openClusterDialog, selectedCluster, effectPending>>
    /\ RenderNext
    /\ UNCHANGED inputVars

\* the markers on display
Markers ==
    UNION {Range(rendered.rows[i].markers) : i \in 1..Len(rendered.rows)}

\* line 239: the pointer enters the marker of one commit; the open dialog
\* covers the markers
MouseEnter(m) ==
    /\ ~effectPending
    /\ ~openClusterDialog
    /\ m.kind = "commit"
    /\ hoveredCommit = Null
    /\ hoveredCommit' = m.commits[1].sha
    /\ UNCHANGED <<commits, timeScale, groupBy, selectedCommit, timeRange,
                   timeIntervals, openClusterDialog, selectedCluster, effectPending>>
    /\ RenderNext
    /\ UNCHANGED inputVars

\* line 240
MouseLeave ==
    /\ ~effectPending
    /\ hoveredCommit # Null
    /\ hoveredCommit' = Null
    /\ UNCHANGED <<commits, timeScale, groupBy, selectedCommit, timeRange,
                   timeIntervals, openClusterDialog, selectedCluster, effectPending>>
    /\ RenderNext
    /\ UNCHANGED inputVars

\* lines 161-164, called from line 297; the pointer is on the cluster marker
handleClusterClick(m) ==
    /\ ~effectPending
    /\ ~openClusterDialog
    /\ hoveredCommit = Null
    /\ m.kind = "cluster"
    /\ selectedCluster' = <<[position |-> m.position, commits |-> m.commits]>>
    /\ openClusterDialog' = TRUE
    /\ UNCHANGED <<commits, timeScale, groupBy, selectedCommit, timeRange,
                   timeIntervals, hoveredCommit, effectPending>>
    /\ RenderNext
    /\ UNCHANGED inputVars

\* the commits listed in the dialog
DialogShas ==
    IF selectedCluster = <<>> THEN {}
    ELSE {c.sha : c \in Range(selectedCluster[1].commits)}

\* lines 166-169, called from line 355: onCommitSelect, which the parent
\* answers by passing the sha as selectedCommit, and the dialog closes
handleCommitSelectFromCluster(sha) ==
    /\ ~effectPending
    /\ openClusterDialog
    /\ selectedCommit' = sha
    /\ openClusterDialog' = FALSE
    /\ UNCHANGED <<commits, timeScale, groupBy, timeRange, timeIntervals,
                   hoveredCommit, selectedCluster, effectPending>>
    /\ RenderNext
    /\ UNCHANGED inputVars

\* lines 337 and 385: the dialog is closed
CloseDialog ==
    /\ ~effectPending
    /\ openClusterDialog
    /\ openClusterDialog' = FALSE
    /\ UNCHANGED <<commits, timeScale, groupBy, selectedCommit, timeRange,
                   timeIntervals, hoveredCommit, selectedCluster, effectPending>>
    /\ RenderNext
    /\ UNCHANGED inputVars

Next ==
    \/ RunEffect
    \/ \E cs \in CommitLists(Repo, MaxCommits) : SetCommits(cs)
    \/ \E scale \in TimeScales : SetTimeScale(scale)
    \/ \E gb \in GroupBys : SetGroupBy(gb)
    \/ \E c \in Range(commits) : SetSelectedCommit(c.sha)
    \/ \E m \in Markers : MouseEnter(m)
    \/ MouseLeave
    \/ \E m \in Markers : handleClusterClick(m)
    \/ \E sha \in DialogShas : handleCommitSelectFromCluster(sha)
    \/ CloseDialog

Spec == Init /\ [][Next]_vars

----------------------------------------------------------------------------
(* Layout of free commit lists: one render pass over a list of commits     *)
(* whose dates, authors and analyses are chosen freely, under a time range *)
(* the state holds from earlier props, then the effect and regrouping      *)

LayoutDates == {1, 2, 30}
LayoutProfiles ==
    {[author |-> "ann", analyses |-> Array(<<Analysis("FEATURE")>>)],
     [author |-> "bob", analyses |-> Array(<<Analysis("FEATURE")>>)]}
LayoutRanges ==
    {[start |-> 0, end |-> 8], [start |-> -300, end |-> 300],
     [start |-> 100, end |-> 700]}

\* commit lists of length n: the sha of a commit is its place in the list
ListsOf(n, dates, profiles) ==
    {[i \in 1..n |-> Commit(ToString(i), d[i], p[i].author, p[i].analyses, Undefined)] :
        d \in [1..n -> dates], p \in [1..n -> profiles]}

LayoutLists == UNION {ListsOf(n, LayoutDates, LayoutProfiles) : n \in 0..MaxLayout}

InitLayout ==
    \E cs \in LayoutLists, gb \in GroupBys, range \in LayoutRanges :
        Rendered(cs, "day", gb, range)

NextLayout ==
    \/ RunEffect
    \/ \E gb \in GroupBys : SetGroupBy(gb)

SpecLayout == InitLayout /\ [][NextLayout]_vars

----------------------------------------------------------------------------
(* Colouring of one cluster: the commits of one author at one instant,     *)
(* their analyses chosen freely; the component is mounted, the effect      *)
(* runs, the grouping changes and the cluster dialog is opened and used    *)

TypeProfiles ==
    {[analyses |-> Array(<<Analysis("FEATURE")>>), analises |-> Undefined],
     [analyses |-> Array(<<Analysis("FEATURE"), Analysis("BUG")>>), analises |-> Undefined],
     [analyses |-> Array(<<>>), analises |-> Undefined],
     [analyses |-> Undefined, analises |-> Array(<<Analysis("BUG"), Analysis("FEATURE")>>)],
     [analyses |-> Undefined, analises |-> Undefined]}

TypeLists ==
    UNION {{[i \in 1..n |-> Commit(ToString(i), 0, "ann", p[i].analyses, p[i].analises)] :
                p \in [1..n -> TypeProfiles]} : n \in 1..MaxCluster}

InitTypes == \E cs \in TypeLists : Mount(cs, "day", "author", 0)

NextTypes ==
    \/ RunEffect
    \/ \E gb \in GroupBys : SetGroupBy(gb)
    \/ \E m \in Markers : handleClusterClick(m)
    \/ \E sha \in DialogShas : handleCommitSelectFromCluster(sha)
    \/ CloseDialog

SpecTypes == InitTypes /\ [][NextTypes]_vars

----------------------------------------------------------------------------
(* Time range and intervals: commit lists of free dates under every time   *)
(* scale, the state holding a range of earlier props and its intervals     *)

RangeDates == {0, 5, 30}

RangeLists ==
    UNION {{[i \in 1..n |-> Commit(ToString(i), d[i], "ann", Array(<<>>), Undefined)] :
                d \in [1..n -> RangeDates]} : n \in 0..MaxLayout}

\* time ranges with the scale their intervals were made for
RangeCases ==
    {[range |-> [start |-> 0, end |-> 8], scale |-> "hour"],
     [range |-> [start |-> 3, end |-> 4], scale |-> "year"],
     [range |-> [start |-> 0, end |-> 50], scale |-> "day"],
     [range |-> [start |-> -10, end |-> 400], scale |-> "week"],
     [range |-> [start |-> 0, end |-> 1440], scale |-> "month"],
     [range |-> [start |-> 0, end |-> 20000], scale |-> "year"]}

InitRange ==
    \E cs \in RangeLists, case \in RangeCases :
        Rendered(cs, case.scale, "date", case.range)

NextRange ==
    \/ RunEffect
    \/ \E scale \in TimeScales : SetTimeScale(scale)

SpecRange == InitRange /\ [][NextRange]_vars

----------------------------------------------------------------------------
(* Properties of one render pass                                           *)

Rows == {rendered.rows[r] : r \in 1..Len(rendered.rows)}

ClusterSizes(row) == [k \in 1..Len(row.markers) |-> Len(row.markers[k].commits)]

\* the clusters of row that hold commit c
ClustersOf(row, c) == {k \in 1..Len(row.markers) : c \in Range(row.markers[k].commits)}

\* C1: the clusters returned for a group hold as many commits as the group,
\* and every commit of the group is in exactly one of them; the empty list
\* gives no cluster.
C1_ClusterConservation ==
    /\ clusterCommits(<<>>, timeRange, timeScale) = <<>>
    /\ \A row \in Rows :
        /\ SumSeq(ClusterSizes(row)) = Len(row.input)
        /\ \A c \in Range(row.input) : Cardinality(ClustersOf(row, c)) = 1

\* a group of three commits, two of them with one timestamp, in two clusters
C1_Witness ==
    ~effectPending /\ \E row \in Rows :
        /\ Len(row.input) = 3
        /\ Len(row.markers) = 2
        /\ Cardinality(Dates(row.input)) = 2

\* the whole number nearest to the fraction p, the upper one of two equally
\* near: n - 1/2 <= p < n + 1/2
Nearest(p) ==
    LET below == p.num \div p.den
    IN CHOOSE n \in {below, below + 1} :
        /\ (2 * n - 1) * p.den <= 2 * p.num
        /\ 2 * p.num < (2 * n + 1) * p.den

\* the rounded position of commit c under the range of the render pass
RoundedIn(c) ==
    Nearest(calculateCommitPosition(c.date, rendered.rangeUsed.start,
                                    rendered.rangeUsed.end, timeScale))

\* C2: two commits of a group are in one cluster exactly if their rounded
\* positions are equal; no two clusters of a group have the same position,
\* the position of a cluster is the rounded position of each member, and
\* no cluster is empty.
C2_ClusterIffSameRounded ==
    \A row \in Rows :
        /\ \A k \in 1..Len(row.markers) :
            /\ Len(row.markers[k].commits) >= 1
            /\ \A c \in Range(row.markers[k].commits) :
                row.markers[k].position = RoundedIn(c)
        /\ \A k1, k2 \in 1..Len(row.markers) :
            k1 # k2 => row.markers[k1].position # row.markers[k2].position
        /\ \A a, b \in Range(row.input) :
            (ClustersOf(row, a) \cap ClustersOf(row, b) # {})
                <=> (RoundedIn(a) = RoundedIn(b))

\* a group in which two commits of different dates share a cluster left of
\* the time range, at a position that is half-way rounded upward, and a
\* third commit has a cluster of its own
C2_Witness ==
    \E row \in Rows :
        /\ Len(row.markers) = 2
        /\ \E k \in 1..Len(row.markers) :
            /\ Cardinality(Dates(row.markers[k].commits)) = 2
            /\ row.markers[k].position < 0
        /\ \E c \in Range(row.input) :
            LET p == calculateCommitPosition(c.date, rendered.rangeUsed.start,
                                             rendered.rangeUsed.end, timeScale)
            IN 2 * p.num = (2 * RoundedIn(c) - 1) * p.den

\* C3: every marker of every render pass is at a whole position from 0 to
\* 100.
C3_PositionsWithin0To100 ==
    \A row \in Rows : \A k \in 1..Len(row.markers) :
        row.markers[k].position \in 0..100

\* C4: the time range a render pass clusters with is the range of the
\* current commits and the current time scale.
C4_RangeOfCurrentInputs ==
    \E now \in Clock : rendered.rangeUsed = calculateTimeRange(commits, timeScale, now)

\* C10: the rows partition the commits: every commit is in exactly one row,
\* the rows together hold the commits and nothing else, no row is empty, and
\* a row keeps its commits in the order of the input.
C10_RowsPartitionCommits ==
    /\ \A c \in Range(commits) :
        Cardinality({r \in 1..Len(rendered.rows) : c \in Range(rendered.rows[r].input)}) = 1
    /\ UNION {Range(row.input) : row \in Rows} = Range(commits)
    /\ \A row \in Rows :
        /\ Len(row.input) > 0
        /\ row.input = SelectSeqBy(commits,
                          {i \in 1..Len(commits) : commits[i] \in Range(row.input)})

\* two rows, one of them with the first and the third commit of the input,
\* the other with the second alone
C10_Witness ==
    /\ ~effectPending
    /\ Len(commits) = 3
    /\ Len(rendered.rows) = 2
    /\ \E row \in Rows : row.input = <<commits[1], commits[3]>>

----------------------------------------------------------------------------
(* Properties of the colouring                                             *)

\* the analyses a commit has: the array of the field it carries
StoredAnalyses(c) ==
    IF c.commit_analyses.present THEN c.commit_analyses.list
    ELSE IF c.commit_analises.present THEN c.commit_analises.list
    ELSE <<>>

\* the effective category: the type of the first stored analysis, CHORE for
\* a commit without analyses
EffectiveCategory(c) ==
    IF StoredAnalyses(c) = <<>> THEN "CHORE" ELSE Head(StoredAnalyses(c)).type

\* how many of the commits cs have the effective category t
CountIn(cs, t) == Cardinality({i \in 1..Len(cs) : EffectiveCategory(cs[i]) = t})

\* the place of the first commit of cs with the effective category t
FirstAt(cs, t) == Min({i \in 1..Len(cs) : EffectiveCategory(cs[i]) = t})

\* the categories with the highest count among cs
TopCategories(cs) ==
    {t \in CommitTypes :
        /\ CountIn(cs, t) > 0
        /\ \A u \in CommitTypes : CountIn(cs, t) >= CountIn(cs, u)}

ClusterMarkers == {m \in Markers : m.kind = "cluster"}

\* C5: the dominant category of a cluster of two or more commits occurs
\* among its members at least as often as every other category.
C5_DominantHasHighestCount ==
    \A m \in ClusterMarkers :
        /\ Len(m.commits) >= 2
        /\ \A t \in CommitTypes : CountIn(m.commits, m.type) >= CountIn(m.commits, t)

\* a cluster of three whose first member is of the category in the minority
C5_Witness ==
    \E m \in ClusterMarkers :
        /\ Len(m.commits) = 3
        /\ CountIn(m.commits, m.type) = 2
        /\ EffectiveCategory(m.commits[1]) # m.type

\* the place of the entry of category t in a list of entries <<type, count>>
PlaceOf(entries, t) == CHOOSE i \in 1..Len(entries) : entries[i][1] = t

\* C6: among the categories tied for the highest count the dominant one is
\* the one that occurs first among the members, and the sort of the tally
\* keeps entries of equal count in the order of the tally.
C6_TieGoesToFirstOccurrence ==
    \A m \in ClusterMarkers :
        LET tally == mostCommonType(commitTypes(m.commits))
            sorted == sortByCount(tally)
        IN /\ m.type \in TopCategories(m.commits)
           /\ \A t \in TopCategories(m.commits) :
                FirstAt(m.commits, m.type) <= FirstAt(m.commits, t)
           /\ \A i, j \in 1..Len(sorted) :
                (i < j /\ sorted[i][2] = sorted[j][2])
                    => PlaceOf(tally, sorted[i][1]) < PlaceOf(tally, sorted[j][1])

\* a cluster of three commits of three categories, each with count one
C6_Witness ==
    \E m \in ClusterMarkers :
        /\ Len(m.commits) = 3
        /\ Cardinality(TopCategories(m.commits)) = 3
        /\ m.type = EffectiveCategory(m.commits[1])

\* C7: the marker of a single commit, the tally of a cluster and the entries
\* of the cluster dialog all use the effective category of the commit: the
\* type of its first analysis, CHORE without analyses.
C7_FirstAnalysisDecides ==
    /\ \A m \in Markers :
        m.kind = "commit" => m.type = EffectiveCategory(m.commits[1])
    /\ \A m \in ClusterMarkers :
        /\ commitTypes(m.commits) =
              [i \in 1..Len(m.commits) |-> EffectiveCategory(m.commits[i])]
        /\ \A e \in Range(mostCommonType(commitTypes(m.commits))) :
              e[2] = CountIn(m.commits, e[1])
    /\ selectedCluster # <<>> =>
        /\ Len(rendered.dialog) = Len(selectedCluster[1].commits)
        /\ \A i \in 1..Len(rendered.dialog) :
              rendered.dialog[i].type = EffectiveCategory(selectedCluster[1].commits[i])

\* a single commit with two analyses of different types has a marker of its
\* own, and the dialog lists a commit with two analyses and one with none
C7_Witness ==
    /\ \E m \in Markers :
        /\ m.kind = "commit"
        /\ Len(StoredAnalyses(m.commits[1])) = 2
        /\ m.type # StoredAnalyses(m.commits[1])[2].type
    /\ openClusterDialog
    /\ \E i, j \in 1..Len(rendered.dialog) :
        /\ Len(StoredAnalyses(selectedCluster[1].commits[i])) = 2
        /\ StoredAnalyses(selectedCluster[1].commits[j]) = <<>>
        /\ rendered.dialog[j].type = "CHORE"

----------------------------------------------------------------------------
(* Properties of the time range and the intervals                          *)

\* C8: once the effect has run on a non-empty commit list, the time range
\* starts strictly before it ends and holds the date of every commit, and
\* no render pass divides by an empty range.
C8_RangeCoversCommits ==
    /\ rendered.rangeUsed.start < rendered.rangeUsed.end
    /\ (~effectPending /\ commits # <<>>) =>
        /\ timeRange.start < timeRange.end
        /\ \A c \in Range(commits) :
            timeRange.start <= c.date /\ c.date <= timeRange.end

\* the effect has run on three commits of one date
C8_Witness ==
    /\ ~effectPending
    /\ Len(commits) = 3
    /\ Cardinality(Dates(commits)) = 1
    /\ timeRange.end - timeRange.start = 2 * PadOf(timeScale)

\* the intervals are one unit of scale wide, the last one at most that
WidthsFit(intervals, scale) ==
    \A i \in 1..Len(intervals) :
        LET width == intervals[i].end - intervals[i].start
        IN /\ width > 0
           /\ width <= UnitOf(scale)
           /\ i < Len(intervals) => width = UnitOf(scale)

\* C9: the intervals are not empty, begin at the start of the time range,
\* end at its end, and each ends where the next begins; they are one unit
\* wide but for the last, which is cut at the end of the range.
C9_IntervalsCoverRange ==
    /\ Len(timeIntervals) >= 1
    /\ timeIntervals[1].start = timeRange.start
    /\ timeIntervals[Len(timeIntervals)].end = timeRange.end
    /\ \A i \in 1..(Len(timeIntervals) - 1) :
        timeIntervals[i].end = timeIntervals[i + 1].start
    /\ \E scale \in TimeScales : WidthsFit(timeIntervals, scale)
    /\ ~effectPending => WidthsFit(timeIntervals, timeScale)

\* the effect has made more than two intervals, the last shorter than a unit
C9_Witness ==
    /\ ~effectPending
    /\ Len(timeIntervals) > 2
    /\ timeIntervals[Len(timeIntervals)].end - timeIntervals[Len(timeIntervals)].start
          < UnitOf(timeScale)

----------------------------------------------------------------------------
(* The effect of lines 112-116 over the life of the component              *)

\* React flushes a scheduled passive effect before it renders again, so a
\* pending effect is always run: the specification is weakly fair to it.
\* The parent passes the empty list, one commit, or two commits of two dates.
EffectLists == {<<>>, <<Repo[1]>>, <<Repo[2], Repo[3]>>}

InitEffect ==
    \E cs \in EffectLists, scale \in TimeScales, now \in Clock :
        Mount(cs, scale, "type", now)

NextEffect ==
    \/ RunEffect
    \/ \E cs \in EffectLists : SetCommits(cs)
    \/ \E scale \in TimeScales : SetTimeScale(scale)
    \/ \E gb \in GroupBys : SetGroupBy(gb)
    \/ \E c \in Range(commits) : SetSelectedCommit(c.sha)
    \/ \E m \in Markers : MouseEnter(m)
    \/ MouseLeave

\* the step of RunEffect as the scheduler sees it; no other action of
\* NextEffect takes effectPending from TRUE to FALSE
FlushEffect == effectPending /\ effectPending' = FALSE

SpecEffect == InitEffect /\ [][NextEffect]_vars /\ WF_effectPending(FlushEffect)

\* the state holds the range of the props, read at some instant, and the
\* intervals of that range
RangeSettled ==
    /\ \E now \in Clock : timeRange = calculateTimeRange(commits, timeScale, now)
    /\ timeIntervals = generateTimeIntervals(timeRange.start, timeRange.end, timeScale)

\* C11: once commits or timeScale changed (or the component mounted) the
\* scheduled effect eventually runs and leaves timeRange equal to
\* calculateTimeRange(commits, timeScale) and timeIntervals equal to
\* generateTimeIntervals of that range; whenever no effect is scheduled the
\* state holds these values, so they stay while the two props stay;
\* timeRange and timeIntervals are written by the effect only, and a step
\* that changes groupBy, selectedCommit or the hovered commit neither
\* writes them nor schedules the effect.
C11_EffectRecomputesOnPropChange ==
    /\ effectPending ~> (~effectPending /\ RangeSettled)
    /\ [](~effectPending => RangeSettled)
    /\ [][(<<timeRange, timeIntervals>>' # <<timeRange, timeIntervals>>)
            => (effectPending /\ ~effectPending')]_vars
    /\ [][(groupBy' # groupBy \/ selectedCommit' # selectedCommit
              \/ hoveredCommit' # hoveredCommit)
            => (effectPending' = effectPending
                  /\ UNCHANGED <<timeRange, timeIntervals>>)]_vars

\* the effect has run for a list of two commits, and the grouping, the
\* selection and the hover changed since without the range being touched
C11_Witness ==
    /\ ~effectPending
    /\ RangeSettled
    /\ Len(commits) = 2
    /\ groupBy # "type"
    /\ selectedCommit # Null
    /\ hoveredCommit # Null
    /\ timeRange = calculateTimeRange(commits, timeScale, 0)

----------------------------------------------------------------------------
(* RepositoryInput (src/unnamed/part_000): the form that takes the URL of   *)
(* a repository, with extractRepoNameFromUrl and checkRepoExists of        *)
(* src/src/lib/supabase.ts.  A string is a sequence of characters.         *)

MaxRuns == 2            \* runs of handleSubmit in one behaviour

\* the characters of the URLs typed: \w of the regular expressions, and the rest
WordChars == {"h", "t", "p", "s", "g", "i", "u", "b", "c", "o", "m", "w", "r",
              "x", "0", "_"}
Whitespace == {" "}
Chars == WordChars \cup Whitespace \cup {":", "/", ".", "-", "?", "#"}

\* the literals of the regular expressions of line 25 and of lines 58-61
Https == <<"h", "t", "t", "p", "s", ":", "/", "/">>
Http == <<"h", "t", "t", "p", ":", "/", "/">>
Www == <<"w", "w", "w", ".">>
GithubComSlash == <<"g", "i", "t", "h", "u", "b", ".", "c", "o", "m", "/">>
DotGit == <<".", "g", "i", "t">>

\* pat is in s from place i on
HasAt(s, i, pat) ==
    /\ i >= 1
    /\ i + Len(pat) - 1 <= Len(s)
    /\ SubSeq(s, i, i + Len(pat) - 1) = pat

\* the place after the longest run of characters of class that starts at i:
\* a greedy class+ or class* of a regular expression
RECURSIVE RunEnd(_, _, _)
RunEnd(s, i, class) ==
    IF i <= Len(s) /\ s[i] \in class THEN RunEnd(s, i + 1, class) ELSE i

\* String.prototype.trim of line 32
trim(s) ==
    LET inner == {i \in 1..Len(s) : s[i] \notin Whitespace}
    IN IF inner = {} THEN <<>> ELSE SubSeq(s, Min(inner), Max(inner))

\* lines 23-27: ^https?:\/\/(www\.)?github\.com\/[\w-]+\/[\w.-]+\/?.*$
validateUrl(u) ==
    LET afterScheme == IF HasAt(u, 1, Https) THEN Len(Https) + 1
                       ELSE IF HasAt(u, 1, Http) THEN Len(Http) + 1
                       ELSE 0
        afterWww == IF HasAt(u, afterScheme, Www) THEN afterScheme + Len(Www)
                    ELSE afterScheme
        owner == afterWww + Len(GithubComSlash)
        ownerEnd == RunEnd(u, owner, WordChars \cup {"-"})
    IN /\ afterScheme > 0
       /\ HasAt(u, afterWww, GithubComSlash)
       /\ ownerEnd > owner
       /\ HasAt(u, ownerEnd, <<"/">>)
       /\ ownerEnd + 1 <= Len(u)
       /\ u[ownerEnd + 1] \in WordChars \cup {".", "-"}

\* lines 55-63 of src/src/lib/supabase.ts; '' is the empty sequence
extractRepoNameFromUrl(u) ==
    LET urlWithoutParams == SubSeq(u, 1, RunEnd(u, 1, Chars \ {"?", "#"}) - 1)
        n == Len(urlWithoutParams)
        cleanUrl == IF HasAt(urlWithoutParams, n - 3, DotGit)
                    THEN SubSeq(urlWithoutParams, 1, n - 4)
                    ELSE urlWithoutParams
        NonSlash == Chars \ {"/"}
        first(i) == i + Len(GithubComSlash)
        firstEnd(i) == RunEnd(cleanUrl, first(i), NonSlash)
        secondEnd(i) == RunEnd(cleanUrl, firstEnd(i) + 1, NonSlash)
        matchAt(i) ==
            /\ HasAt(cleanUrl, i, GithubComSlash)
            /\ firstEnd(i) > first(i)
            /\ HasAt(cleanUrl, firstEnd(i), <<"/">>)
            /\ secondEnd(i) > firstEnd(i) + 1
        match == {i \in 1..Len(cleanUrl) : matchAt(i)}
    IN IF match = {} THEN <<>>
       ELSE SubSeq(cleanUrl, first(Min(match)), secondEnd(Min(match)) - 1)

\* what the query of lines 37-40 answers: an error or none, and a count or null
Responses ==
    {[error |-> TRUE, count |-> <<>>], [error |-> FALSE, count |-> <<>>],
     [error |-> FALSE, count |-> <<0>>], [error |-> FALSE, count |-> <<2>>]}

\* lines 34-53: checkRepoExists throws on an error of the query, and
\* otherwise returns whether the count is a positive number
checkRepoExistsThrows(response) == response.error
checkRepoExists(response) == response.count # <<>> /\ response.count[1] > 0

\* what is typed into the input of lines 77-83
Urls ==
    {<<>>,
     <<" ">>,
     GithubComSlash \o <<"u", "/", "r">>,
     Https \o GithubComSlash \o <<"u", "/">> \o DotGit,
     Http \o Www \o GithubComSlash \o <<"u", "-", "0", "/", "r">> \o DotGit
        \o <<"?", "b", "#", "c">>}

\* lines 32-48 without the check of line 45
earlyReturnUnnamed(u) ==
    IF trim(u) = <<>>
    THEN [returns |-> TRUE, toast |-> "Please enter a repository URL",
          trail |-> <<>>]
    ELSE IF ~validateUrl(u)
    THEN [returns |-> TRUE, toast |-> "Please enter a valid GitHub repository URL",
          trail |-> <<"trim">>]
    ELSE [returns |-> FALSE, toast |-> "",
          trail |-> <<"trim", "validateUrl", "extractRepoNameFromUrl">>]

\* lines 32-48: the three early returns of handleSubmit, each with its
\* toast, and the checks passed before it
earlyReturn(u) ==
    IF trim(u) = <<>>
    THEN [returns |-> TRUE, toast |-> "Please enter a repository URL",
          trail |-> <<>>]
    ELSE IF ~validateUrl(u)
    THEN [returns |-> TRUE, toast |-> "Please enter a valid GitHub repository URL",
          trail |-> <<"trim">>]
    ELSE IF extractRepoNameFromUrl(u) = <<>>
    THEN [returns |-> TRUE, toast |-> "Could not extract repository name from URL",
          trail |-> <<"trim", "validateUrl">>]
    ELSE [returns |-> FALSE, toast |-> "",
          trail |-> <<"trim", "validateUrl", "extractRepoNameFromUrl">>]

\* one run of handleSubmit: the url of the render it was called in, where
\* it stands, the checks it passed, its toast.error, what the query of
\* checkRepoExists answered, its calls of onSubmit, and checkingRepo as it
\* was when the run returned
Run(u, pc, trail, toast, returned) ==
    [url |-> u, repoName |-> extractRepoNameFromUrl(u), pc |-> pc,
     trail |-> trail, toast |-> toast, response |-> <<>>, calls |-> <<>>,
     returned |-> returned]

\* lines 29-53: the form is submitted, which the disabled button of line 87
\* prevents; the handler runs to one of its early returns or to the await
\* of line 53
handleSubmit ==
    /\ ~(isLoading \/ checkingRepo)
    /\ Len(runs) < MaxRuns
    /\ LET early == earlyReturn(url)
       IN IF early.returns
          THEN /\ runs' = Append(runs, Run(url, "returned", early.trail,
                                          early.toast, <<checkingRepo>>))
               /\ UNCHANGED checkingRepo
          ELSE /\ runs' = Append(runs, Run(url, "checkRepoExists", early.trail,
                                          "", <<>>))
               /\ checkingRepo' = TRUE
    /\ UNCHANGED <<url, isLoading>>
    /\ UNCHANGED timelineVars

\* lines 59-63: the catch block
catch(k, response) ==
    /\ runs' = [runs EXCEPT ![k].pc = "returned",
                            ![k].toast = "Failed to process repository. Please try again.",
                            ![k].response = response,
                            ![k].returned = <<FALSE>>]
    /\ checkingRepo' = FALSE

\* lines 53-58: checkRepoExists resolves, and the handler runs to the await
\* of line 58 with onSubmit called
checkRepoExistsResolves(k, response) ==
    /\ runs[k].pc = "checkRepoExists"
    /\ ~checkRepoExistsThrows(response)
    /\ LET exists == checkRepoExists(response)
       IN runs' = [runs EXCEPT
            ![k].pc = "onSubmit",
            ![k].response = <<response>>,
            ![k].trail = @ \o <<"checkRepoExists", "onSubmit">>,
            ![k].calls = Append(@, [url |-> runs[k].url,
                                    repoName |-> runs[k].repoName,
                                    repoExists |-> exists])]
    /\ checkingRepo' = FALSE
    /\ UNCHANGED <<url, isLoading>>
    /\ UNCHANGED timelineVars

\* line 53 to the catch block: checkRepoExists rejects
checkRepoExistsRejects(k, response) ==
    /\ runs[k].pc = "checkRepoExists"
    /\ checkRepoExistsThrows(response)
    /\ catch(k, <<response>>)
    /\ UNCHANGED <<url, isLoading>>
    /\ UNCHANGED timelineVars

\* line 58: the promise of onSubmit resolves and the handler returns
onSubmitResolves(k) ==
    /\ runs[k].pc = "onSubmit"
    /\ runs' = [runs EXCEPT ![k].pc = "returned", ![k].returned = <<checkingRepo>>]
    /\ UNCHANGED <<url, checkingRepo, isLoading>>
    /\ UNCHANGED timelineVars

\* line 58 to the catch block: the promise of onSubmit rejects
onSubmitRejects(k) ==
    /\ runs[k].pc = "onSubmit"
    /\ catch(k, runs[k].response)
    /\ UNCHANGED <<url, isLoading>>
    /\ UNCHANGED timelineVars

\* line 80: the user edits the input
setUrl(u) ==
    /\ u # url
    /\ url' = u
    /\ UNCHANGED <<checkingRepo, isLoading, runs>>
    /\ UNCHANGED timelineVars

\* line 17: the parent passes another isLoading
SetIsLoading(b) ==
    /\ b # isLoading
    /\ isLoading' = b
    /\ UNCHANGED <<url, checkingRepo, runs>>
    /\ UNCHANGED timelineVars

InitSubmit == Mount(<<>>, "day", "date", 0)

NextSubmit ==
    \/ handleSubmit
    \/ \E k \in 1..Len(runs), response \in Responses : checkRepoExistsResolves(k, response)
    \/ \E k \in 1..Len(runs), response \in Responses : checkRepoExistsRejects(k, response)
    \/ \E k \in 1..Len(runs) : onSubmitResolves(k)
    \/ \E k \in 1..Len(runs) : onSubmitRejects(k)
    \/ \E u \in Urls : setUrl(u)
    \/ \E b \in BOOLEAN : SetIsLoading(b)

SpecSubmit == InitSubmit /\ [][NextSubmit]_vars

----------------------------------------------------------------------------
(* Properties of handleSubmit                                              *)

Returned == {k \in 1..Len(runs) : runs[k].pc = "returned"}

\* the run called onSubmit at most once, and only with a url that is not
\* blank, that validateUrl accepts and that has a repository name, after
\* checkRepoExists resolved, the checks passed in this order, with the url,
\* the name and the result of checkRepoExists; a run with a failed step made
\* no call
SubmittedAfterChecks(run) ==
    /\ Len(run.calls) <= 1
    /\ run.calls # <<>> =>
        /\ trim(run.url) # <<>>
        /\ validateUrl(run.url)
        /\ extractRepoNameFromUrl(run.url) # <<>>
        /\ run.response # <<>>
        /\ ~checkRepoExistsThrows(run.response[1])
        /\ run.trail = <<"trim", "validateUrl", "extractRepoNameFromUrl",
                         "checkRepoExists", "onSubmit">>
        /\ run.calls[1] = [url |-> run.url,
                           repoName |-> extractRepoNameFromUrl(run.url),
                           repoExists |-> checkRepoExists(run.response[1])]
    /\ \/ trim(run.url) = <<>>
       \/ ~validateUrl(run.url)
       \/ extractRepoNameFromUrl(run.url) = <<>>
       \/ (run.response # <<>> /\ checkRepoExistsThrows(run.response[1]))
       => run.calls = <<>>

\* C12 as stated: every run of handleSubmit calls onSubmit at most once and
\* only after the url passed, in order, the blank check, validateUrl and
\* extractRepoNameFromUrl and checkRepoExists resolved, its result the third
\* argument; a failed step means no call; and checkingRepo is false when the
\* run has returned.
C12_SubmitOnceAfterChecks ==
    /\ \A k \in 1..Len(runs) : SubmittedAfterChecks(runs[k])
    /\ \A k \in Returned : runs[k].returned = <<FALSE>>

\* C12, amended: every run of handleSubmit calls onSubmit at most once and
\* only after the checks, as stated; checkingRepo is true only while some
\* run awaits checkRepoExists, so it is false once every run has returned,
\* but a run may return while a run started after it has set checkingRepo.
C12_SubmitOnceAfterChecksFlagOfOpenRuns ==
    /\ \A k \in 1..Len(runs) : SubmittedAfterChecks(runs[k])
    /\ checkingRepo => \E k \in 1..Len(runs) : runs[k].pc = "checkRepoExists"
    /\ Returned = 1..Len(runs) => ~checkingRepo

\* a run called onSubmit and returned while checkingRepo was true, a run
\* started later failed in checkRepoExists, and every run has returned
C12_Witness ==
    /\ Returned = 1..Len(runs)
    /\ ~checkingRepo
    /\ \E j, k \in Returned :
        /\ j < k
        /\ Len(runs[j].calls) = 1
        /\ runs[j].returned = <<TRUE>>
        /\ runs[k].calls = <<>>
        /\ runs[k].response # <<>>

====
